---- MODULE Spec2Model ----
(***************************************************************************)
(* Model of MemberSyncService (services/search_sync_worker,                *)
(* member.sync.service.ts): cleanupMemberIndex, removeMember,              *)
(* syncTenantMembers, syncMember, prefixData and                           *)
(* attributeTypeToOpenSearchPrefix.                                        *)
(*                                                                         *)
(* The service holds no state of its own.  The state is that of its two    *)
(* collaborators, the member store (MemberRepository) and the search       *)
(* index (OpenSearchService), plus the position and the locals of every    *)
(* call in flight.  Every `await` of the service is one step of the model. *)
(* MemberRepository and OpenSearchService are not part of the sources at   *)
(* hand; their operations are modelled from the interface description of   *)
(* the specification (sections 4.4 and 4.5).                               *)
(***************************************************************************)
EXTENDS Integers, Sequences, FiniteSets, TLC

\* ------------------------------------------------------------------------
\* Bounds of the model
\* ------------------------------------------------------------------------
MaxMembers == 4
MaxSegments == 2
MaxJoin == 3
MaxBatchSize == 2
MaxCalls == 2
MaxBatches == 4

\* page size of the cleanup scan: 500 in the source, scaled down so that a
\* scan of MaxMembers documents crosses page boundaries
pageSize == 2

\* retry budget of syncMember (`retries < 5`)
MaxRetries == 5

MemberIds == 1..MaxMembers
Tenants == {1, 2}
Calls == 1..MaxCalls

\* the tenant a member id belongs to: the last id is the only member of
\* tenant 2, every other id is a member of tenant 1
TenantOf(id) == IF id = MaxMembers THEN 2 ELSE 1

Min(a, b) == IF a < b THEN a ELSE b
CeilDiv(a, b) == (a + b - 1) \div b

\* the elements of a set of numbers as an ascending sequence
RECURSIVE SortedSeq(_)
SortedSeq(S) ==
  IF S = {} THEN << >>
  ELSE LET m == CHOOSE x \in S : \A y \in S : x <= y
       IN << m >> \o SortedSeq(S \ {m})

Range(s) == { s[i] : i \in 1..Len(s) }

\* the first n elements of a sequence
Take(s, n) == SubSeq(s, 1, Min(n, Len(s)))

\* ------------------------------------------------------------------------
\* Attribute schema and attribute bags
\* ------------------------------------------------------------------------
AttributeTypes ==
  {"BOOLEAN", "NUMBER", "EMAIL", "STRING", "URL", "DATE", "MULTI_SELECT", "SPECIAL"}

\* a type outside the enumerated set
UnknownType == "UNKNOWN"

\* schemas a tenant can have: sequences of [name, type]
SchemaPlain == << [name |-> "a1", type |-> "NUMBER"] >>
SchemaSpecial == << [name |-> "a1", type |-> "NUMBER"], [name |-> "a2", type |-> "SPECIAL"] >>
SchemaCorrupt == << [name |-> "a1", type |-> "NUMBER"], [name |-> "a2", type |-> UnknownType] >>

\* attribute bags of a member: attribute name -> (sub-key -> value).
\* Values are numbers in tenths: 50 is 5, 55 is 5.5.
BagNone == [a0 |-> [default |-> 10]]
BagOne == [a1 |-> [default |-> 50, custom |-> 55]]
BagTwo == [a1 |-> [default |-> 55], a2 |-> [default |-> 10]]

\* a bag whose attribute has no "default" sub-key
BagNoDefault == [a1 |-> [custom |-> 50]]

VARIABLES
  dbExists,   \* member ids with a row in the store (checkMembersExists)
  dbSegs,     \* member id -> number of segment snapshots getMemberData returns
  dbName,     \* member id -> displayName
  dbJoined,   \* member id -> joinedAt
  dbBag,      \* member id -> attribute bag
  dbSynced,   \* member ids marked synced (not pending)
  schema,     \* tenant -> attribute schema
  index,      \* member id -> document of the index, or NoDoc
  st,         \* the syncTenantMembers run
  cl,         \* the cleanupMemberIndex run
  sm          \* call id -> the syncMember call

dbVars == << dbExists, dbSegs, dbName, dbJoined, dbBag, dbSynced, schema >>
vars == << dbExists, dbSegs, dbName, dbJoined, dbBag, dbSynced, schema, index, st, cl, sm >>

NoDoc == [none |-> TRUE]
MappingError == [error |-> "Could not map attribute type"]

\* ------------------------------------------------------------------------
\* AttributeFlattener: prefixData and attributeTypeToOpenSearchPrefix
\* ------------------------------------------------------------------------

\* the value read from a key an object does not have
Undefined == -1

\* the outcome of attributeTypeToOpenSearchPrefix when it throws
Throws == "<throw>"

\* IsIntegerValued that takes every number for an integer
IsIntegerValuedAnyNumber(defValue) == defValue # Undefined

\* `(defValue as number) % 1 === 0`, on numbers in tenths; undefined % 1 is NaN
IsIntegerValued(defValue) == defValue # Undefined /\ defValue % 10 = 0

\* attributeTypeToOpenSearchPrefix whose default case maps to string
attributeTypeToOpenSearchPrefixLenient(defValue, type) ==
  CASE type = "BOOLEAN" -> "bool"
    [] type = "NUMBER" -> IF IsIntegerValued(defValue) THEN "int" ELSE "float"
    [] type = "DATE" -> "date"
    [] type = "MULTI_SELECT" -> "string_arr"
    [] OTHER -> "string"

attributeTypeToOpenSearchPrefix(defValue, type) ==
  CASE type = "BOOLEAN" -> "bool"
    [] type = "NUMBER" -> IF IsIntegerValued(defValue) THEN "int" ELSE "float"
    [] type = "EMAIL" -> "string"
    [] type = "STRING" -> "string"
    [] type = "URL" -> "string"
    [] type = "DATE" -> "date"
    [] type = "MULTI_SELECT" -> "string_arr"
    [] type = "SPECIAL" -> "string"
    [] OTHER -> Throws

\* JSON.stringify of an attribute's value
JsonStringify(v) == << "json", v >>

\* attData[attribute.name].default
DefaultOf(bag) == IF "default" \in DOMAIN bag THEN bag["default"] ELSE Undefined

\* the field of obj_attributes an attribute is written to
AttributeField(attribute) ==
  IF attribute.type = "SPECIAL" THEN "string_" \o attribute.name ELSE "obj_" \o attribute.name

\* p_data of one non-SPECIAL attribute: every sub-key under the prefix
PrefixedBag(prefix, bag) ==
  LET keyOf(field) == CHOOSE key \in DOMAIN bag : (prefix \o "_") \o key = field
  IN [field \in { (prefix \o "_") \o key : key \in DOMAIN bag } |-> bag[keyOf(field)]]

\* the value written for one attribute of the schema that the bag holds
AttributeValue(attribute, attData) ==
  IF attribute.type = "SPECIAL"
  THEN JsonStringify(attData[attribute.name])
  ELSE PrefixedBag(
         attributeTypeToOpenSearchPrefix(DefaultOf(attData[attribute.name]), attribute.type),
         attData[attribute.name])

\* the positions of the schema whose attribute is in the bag
PresentAttributes(attributes, attData) ==
  { i \in 1..Len(attributes) : attributes[i].name \in DOMAIN attData }

\* does the loop over the schema throw
FlattenThrows(attributes, attData) ==
  \E i \in PresentAttributes(attributes, attData) :
    /\ attributes[i].type # "SPECIAL"
    /\ attributeTypeToOpenSearchPrefix(DefaultOf(attData[attributes[i].name]),
                                       attributes[i].type) = Throws

\* p_attributes: a later attribute of the schema overwrites an earlier one
\* that maps to the same field
FlattenAttributes(attributes, attData) ==
  LET present == PresentAttributes(attributes, attData)
      fields == { AttributeField(attributes[i]) : i \in present }
      lastOf(field) == CHOOSE i \in present :
                         /\ AttributeField(attributes[i]) = field
                         /\ \A j \in present :
                              AttributeField(attributes[j]) = field => j <= i
  IN [field \in fields |-> AttributeValue(attributes[lastOf(field)], attData)]

\* one entry of obj_arr_segments
FlattenSegment(segData) ==
  [uuid_segmentId |-> segData.segmentId, int_activityCount |-> segData.activityCount]

\* prefixData that takes the identity and scalar fields and the attribute bag
\* from the last snapshot
prefixDataLastSnapshot(segmentedMembers, attributes) ==
  LET data == segmentedMembers[Len(segmentedMembers)]
  IN IF FlattenThrows(attributes, data.attributes)
     THEN MappingError
     ELSE [uuid_memberId |-> data.id,
           uuid_tenantId |-> data.tenantId,
           string_displayName |-> data.displayName,
           obj_attributes |-> FlattenAttributes(attributes, data.attributes),
           date_joinedAt |-> data.joinedAt,
           obj_arr_segments |->
             [k \in 1..Len(segmentedMembers) |-> FlattenSegment(segmentedMembers[k])]]

\* prefixData(segmentedMembers, attributes): the document, or MappingError
prefixData(segmentedMembers, attributes) ==
  LET data == segmentedMembers[1]
  IN IF FlattenThrows(attributes, data.attributes)
     THEN MappingError
     ELSE [uuid_memberId |-> data.id,
           uuid_tenantId |-> data.tenantId,
           string_displayName |-> data.displayName,
           obj_attributes |-> FlattenAttributes(attributes, data.attributes),
           date_joinedAt |-> data.joinedAt,
           obj_arr_segments |->
             [k \in 1..Len(segmentedMembers) |-> FlattenSegment(segmentedMembers[k])]]

\* ------------------------------------------------------------------------
\* MemberStore (MemberRepository)
\* ------------------------------------------------------------------------

\* the segment snapshots of one member, one row per segment
RowsWith(id, segs, name, joined, bag) ==
  [k \in 1..segs |->
     [id |-> id, tenantId |-> TenantOf(id), displayName |-> name,
      joinedAt |-> joined, attributes |-> bag,
      segmentId |-> k, activityCount |-> id + k]]

RowsOf(id) == RowsWith(id, dbSegs[id], dbName[id], dbJoined[id], dbBag[id])

\* getMemberData(ids): the rows of the given ids, by id
RECURSIVE RowsOfAll(_)
RowsOfAll(idSeq) ==
  IF idSeq = << >> THEN << >> ELSE RowsOf(Head(idSeq)) \o RowsOfAll(Tail(idSeq))

getMemberData(ids) == RowsOfAll(SortedSeq(Range(ids)))

\* the pending queue of a tenant
Pending(tenantId) ==
  { id \in dbExists : TenantOf(id) = tenantId /\ id \notin dbSynced }

\* getTenantMembersForSync(tenantId, page, perPage)
getTenantMembersForSync(tenantId, page, perPage) ==
  LET all == SortedSeq(Pending(tenantId))
      from == (page - 1) * perPage + 1
  IN SubSeq(all, from, Min(Len(all), from + perPage - 1))

\* setTenanMembersForSync(tenantId): the synced marks after the reset
setTenanMembersForSync(tenantId) == { id \in dbSynced : TenantOf(id) # tenantId }

\* markSynced(ids): the synced marks after it
markSynced(ids) == dbSynced \cup (Range(ids) \cap dbExists)

getTenantMemberAttributes(tenantId) == schema[tenantId]

\* checkMembersExists(tenantId, ids)
checkMembersExists(tenantId, ids) ==
  SelectSeq(ids, LAMBDA id : id \in dbExists /\ TenantOf(id) = tenantId)

\* groupBy(allMembers, m => m.id): the keys in order of first appearance
RECURSIVE GroupKeys(_)
GroupKeys(rows) ==
  IF rows = << >> THEN << >>
  ELSE LET rest == GroupKeys(SubSeq(rows, 1, Len(rows) - 1))
           key == rows[Len(rows)].id
       IN IF key \in Range(rest) THEN rest ELSE Append(rest, key)

\* grouped.get(memberId)
GroupOf(rows, memberId) == SelectSeq(rows, LAMBDA m : m.id = memberId)

\* ------------------------------------------------------------------------
\* IndexClient (OpenSearchService)
\* ------------------------------------------------------------------------
NoCursor == 0

\* the ids of the hits of a tenant-filtered search, ascending by
\* date_joinedAt (ties by id), after the cursor
RECURSIVE SortHits(_)
SortHits(S) ==
  IF S = {} THEN << >>
  ELSE LET m == CHOOSE x \in S : \A y \in S :
                  \/ index[x].date_joinedAt < index[y].date_joinedAt
                  \/ index[x].date_joinedAt = index[y].date_joinedAt /\ x <= y
       IN << m >> \o SortHits(S \ {m})

Matching(tenantId, searchAfter) ==
  { id \in MemberIds : /\ index[id] # NoDoc
                       /\ index[id].uuid_tenantId = tenantId
                       /\ (searchAfter = NoCursor \/ index[id].date_joinedAt > searchAfter) }

\* search(MEMBERS, query, size, sort, searchAfter, include): hits [_id, date_joinedAt]
search(tenantId, size, searchAfter) ==
  LET hits == Take(SortHits(Matching(tenantId, searchAfter)), size)
  IN [i \in 1..Len(hits) |-> [id |-> hits[i], date_joinedAt |-> index[hits[i]].date_joinedAt]]

\* removeFromIndex(id, MEMBERS): the index after it
removeFromIndex(id) == [index EXCEPT ![id] = NoDoc]

\* index(id, MEMBERS, body): the index after it
indexDoc(id, body) == [index EXCEPT ![id] = body]

\* bulkIndex(MEMBERS, prepared): the index after it
bulkIndex(prepared) ==
  [id \in MemberIds |->
     IF \E i \in 1..Len(prepared) : prepared[i].id = id
     THEN prepared[CHOOSE i \in 1..Len(prepared) :
                     /\ prepared[i].id = id
                     /\ \A j \in 1..Len(prepared) : prepared[j].id = id => j <= i].body
     ELSE index[id]]

\* ------------------------------------------------------------------------
\* The data the runs start from
\* ------------------------------------------------------------------------

\* the number of segment snapshots of a member once the store shows it
SegsOf(id) == 1 + (id % MaxSegments)

\* the attribute bag of a member
BagOf(id) == CASE id % 3 = 1 -> BagOne [] id % 3 = 2 -> BagTwo [] OTHER -> BagNone

\* the document an earlier sync wrote for a member, under the plain schema
StoredDoc(id, name, joined) ==
  prefixData(RowsWith(id, SegsOf(id), name, joined, BagOf(id)), SchemaPlain)

\* the document of a member as the store and the schema are now
CurrentDoc(id) == prefixData(RowsOf(id), getTenantMemberAttributes(TenantOf(id)))

\* ------------------------------------------------------------------------
\* syncMember(memberId, retries = 0)
\* ------------------------------------------------------------------------
SmIdle ==
  [pc |-> "idle", memberId |-> 0, retries |-> 0, members |-> << >>, prepared |-> NoDoc,
   fetches |-> 0, writes |-> 0, marks |-> 0, deletes |-> 0]

\* a caller invokes syncMember(memberId)
SmStart(c, memberId) ==
  /\ sm[c].pc \in {"idle", "done", "failed"}
  /\ sm' = [sm EXCEPT ![c] = [SmIdle EXCEPT !.pc = "fetch", !.memberId = memberId]]
  /\ UNCHANGED << dbVars, index, st, cl >>

\* SmFetch with the retry test off by one (retries <= 5)
SmFetchOneMoreRetry(c) ==
  /\ sm[c].pc = "fetch"
  /\ LET members == getMemberData(<< sm[c].memberId >>)
     IN sm' = [sm EXCEPT ![c].members = members,
                         ![c].fetches = @ + 1,
                         ![c].pc = IF Len(members) > 0 THEN "attrs"
                                   ELSE IF sm[c].retries <= MaxRetries THEN "wait"
                                   ELSE "remove"]
  /\ UNCHANGED << dbVars, index, st, cl >>

\* const members = await this.memberRepo.getMemberData([memberId]); the branch
\* on members.length and on retries < 5
SmFetch(c) ==
  /\ sm[c].pc = "fetch"
  /\ LET members == getMemberData(<< sm[c].memberId >>)
     IN sm' = [sm EXCEPT ![c].members = members,
                         ![c].fetches = @ + 1,
                         ![c].pc = IF Len(members) > 0 THEN "attrs"
                                   ELSE IF sm[c].retries < MaxRetries THEN "wait"
                                   ELSE "remove"]
  /\ UNCHANGED << dbVars, index, st, cl >>

\* getTenantMemberAttributes(members[0].tenantId) and prefixData(members, attributes)
SmAttrs(c) ==
  /\ sm[c].pc = "attrs"
  /\ LET attributes == getTenantMemberAttributes(sm[c].members[1].tenantId)
         prepared == prefixData(sm[c].members, attributes)
     IN sm' = [sm EXCEPT ![c].prepared = prepared,
                         ![c].pc = IF prepared = MappingError THEN "failed" ELSE "index"]
  /\ UNCHANGED << dbVars, index, st, cl >>

\* SmIndex that patches the document under the id: the fields of
\* obj_attributes the new body lacks are kept
SmIndexPatch(c) ==
  /\ sm[c].pc = "index"
  /\ LET previous == index[sm[c].memberId]
         body == sm[c].prepared
         kept == IF previous = NoDoc THEN << >> ELSE previous.obj_attributes
         merged == [f \in DOMAIN kept \cup DOMAIN body.obj_attributes |->
                      IF f \in DOMAIN body.obj_attributes
                      THEN body.obj_attributes[f] ELSE kept[f]]
     IN index' = indexDoc(sm[c].memberId, [body EXCEPT !.obj_attributes = merged])
  /\ sm' = [sm EXCEPT ![c].writes = @ + 1, ![c].pc = "mark"]
  /\ UNCHANGED << dbVars, st, cl >>

\* await this.openSearchService.index(memberId, MEMBERS, prepared)
SmIndex(c) ==
  /\ sm[c].pc = "index"
  /\ index' = indexDoc(sm[c].memberId, sm[c].prepared)
  /\ sm' = [sm EXCEPT ![c].writes = @ + 1, ![c].pc = "mark"]
  /\ UNCHANGED << dbVars, st, cl >>

\* SmMark that acknowledges without marking the member synced
SmMarkNothing(c) ==
  /\ sm[c].pc = "mark"
  /\ sm' = [sm EXCEPT ![c].marks = @ + 1, ![c].pc = "done"]
  /\ UNCHANGED << dbVars, index, st, cl >>

\* await this.memberRepo.markSynced([memberId])
SmMark(c) ==
  /\ sm[c].pc = "mark"
  /\ dbSynced' = markSynced(<< sm[c].memberId >>)
  /\ sm' = [sm EXCEPT ![c].marks = @ + 1, ![c].pc = "done"]
  /\ UNCHANGED << dbExists, dbSegs, dbName, dbJoined, dbBag, schema, index, st, cl >>

\* await timeout(100); await this.syncMember(memberId, ++retries)
SmWait(c) ==
  /\ sm[c].pc = "wait"
  /\ sm' = [sm EXCEPT ![c].retries = @ + 1, ![c].pc = "fetch"]
  /\ UNCHANGED << dbVars, index, st, cl >>

\* SmRemove that leaves the document in the index
SmRemoveKeeps(c) ==
  /\ sm[c].pc = "remove"
  /\ sm' = [sm EXCEPT ![c].deletes = @ + 1, ![c].pc = "done"]
  /\ UNCHANGED << dbVars, index, st, cl >>

\* await this.openSearchService.removeFromIndex(memberId, MEMBERS)
SmRemove(c) ==
  /\ sm[c].pc = "remove"
  /\ index' = removeFromIndex(sm[c].memberId)
  /\ sm' = [sm EXCEPT ![c].deletes = @ + 1, ![c].pc = "done"]
  /\ UNCHANGED << dbVars, st, cl >>


\* replication lag ends while a call waits: the member's snapshots become visible
Replicate(c) ==
  /\ sm[c].pc = "wait"
  /\ dbSegs[sm[c].memberId] = 0
  /\ dbSegs' = [dbSegs EXCEPT ![sm[c].memberId] = SegsOf(sm[c].memberId)]
  /\ dbExists' = dbExists \cup {sm[c].memberId}
  /\ UNCHANGED << dbName, dbJoined, dbBag, dbSynced, schema, index, st, cl, sm >>

\* ------------------------------------------------------------------------
\* syncTenantMembers(tenantId, reset = true, batchSize = 500)
\* ------------------------------------------------------------------------
EmptyIndex == [id \in MemberIds |-> NoDoc]

\* what is remembered of the run before the current one
NoPrev == [outcome |-> "none", cause |-> "none", tenantId |-> 0, reset |-> FALSE, index |-> EmptyIndex]

\* The fields up to count are the locals of the method.  The others record
\* the history of the run: the number of non-empty claims, the pending ids at
\* the first claim, the ids of the confirmed bulk write of the current batch,
\* the ids written and marked so far, why the run failed, and the run before.
StIdle ==
  [pc |-> "idle", tenantId |-> 0, reset |-> FALSE, batchSize |-> 0, attributes |-> << >>,
   memberIds |-> << >>, ids |-> << >>, prepared |-> << >>, count |-> 0,
   batches |-> 0, claims |-> 0, startPending |-> {}, bulkIds |-> {}, written |-> {},
   marked |-> {}, cause |-> "none", prev |-> NoPrev]

StSummary ==
  [outcome |-> st.pc, cause |-> st.cause, tenantId |-> st.tenantId, reset |-> st.reset,
   index |-> IF st.pc = "done" THEN index ELSE EmptyIndex]

\* a caller invokes syncTenantMembers(tenantId, reset, batchSize)
StStart(tenantId, reset, batchSize) ==
  /\ st.pc \in {"idle", "done", "failed"}
  /\ st' = [StIdle EXCEPT !.pc = IF reset THEN "reset" ELSE "attrs",
                          !.tenantId = tenantId, !.reset = reset, !.batchSize = batchSize,
                          !.prev = IF st.pc = "idle" THEN NoPrev ELSE StSummary]
  /\ UNCHANGED << dbVars, index, cl, sm >>

\* StReset that leaves the pending queue as it is
StResetNothing ==
  /\ st.pc = "reset"
  /\ st' = [st EXCEPT !.pc = "attrs"]
  /\ UNCHANGED << dbVars, index, cl, sm >>

\* if (reset) await this.memberRepo.setTenanMembersForSync(tenantId)
StReset ==
  /\ st.pc = "reset"
  /\ dbSynced' = setTenanMembersForSync(st.tenantId)
  /\ st' = [st EXCEPT !.pc = "attrs"]
  /\ UNCHANGED << dbExists, dbSegs, dbName, dbJoined, dbBag, schema, index, cl, sm >>

\* const attributes = await this.memberRepo.getTenantMemberAttributes(tenantId)
StAttrs ==
  /\ st.pc = "attrs"
  /\ st' = [st EXCEPT !.attributes = getTenantMemberAttributes(st.tenantId), !.pc = "claim"]
  /\ UNCHANGED << dbVars, index, cl, sm >>

\* memberIds = await this.memberRepo.getTenantMembersForSync(tenantId, 1, batchSize)
\* and the test of the loop, memberIds.length > 0
StClaim ==
  /\ st.pc = "claim"
  /\ LET memberIds == getTenantMembersForSync(st.tenantId, 1, st.batchSize)
     IN st' = [st EXCEPT !.memberIds = memberIds,
                         !.ids = << >>,
                         !.prepared = << >>,
                         !.bulkIds = {},
                         !.startPending = IF st.claims = 0 THEN Pending(st.tenantId) ELSE @,
                         !.claims = Min(@ + 1, MaxBatches + 1),
                         !.batches = IF Len(memberIds) > 0 THEN Min(@ + 1, MaxBatches) ELSE @,
                         !.pc = IF Len(memberIds) > 0 THEN "fetch" ELSE "done"]
  /\ UNCHANGED << dbVars, index, cl, sm >>

\* the bodies of one batch: prepared.push({id, body: prefixData(members, attributes)})
Prepare(allMembers, ids, attributes) ==
  [i \in 1..Len(ids) |->
     [id |-> ids[i], body |-> prefixData(GroupOf(allMembers, ids[i]), attributes)]]

\* StFetch that goes on to markSynced before the bulk write
StFetchMarkFirst ==
  /\ st.pc = "fetch"
  /\ LET allMembers == getMemberData(st.memberIds)
         ids == GroupKeys(allMembers)
         prepared == Prepare(allMembers, ids, st.attributes)
         thrown == \E i \in 1..Len(prepared) : prepared[i].body = MappingError
     IN st' = [st EXCEPT !.ids = ids,
                         !.prepared = IF thrown THEN << >> ELSE prepared,
                         !.cause = IF thrown THEN "mapping" ELSE @,
                         !.pc = IF Len(ids) = 0 THEN "claim"
                                ELSE IF thrown THEN "failed" ELSE "mark"]
  /\ UNCHANGED << dbVars, index, cl, sm >>

\* allMembers = await this.memberRepo.getMemberData(memberIds), groupBy, and
\* the loop that prepares the bodies; prefixData may throw
StFetch ==
  /\ st.pc = "fetch"
  /\ LET allMembers == getMemberData(st.memberIds)
         ids == GroupKeys(allMembers)
         prepared == Prepare(allMembers, ids, st.attributes)
         thrown == \E i \in 1..Len(prepared) : prepared[i].body = MappingError
     IN st' = [st EXCEPT !.ids = ids,
                         !.prepared = IF thrown THEN << >> ELSE prepared,
                         !.cause = IF thrown THEN "mapping" ELSE @,
                         !.pc = IF Len(ids) = 0 THEN "claim"
                                ELSE IF thrown THEN "failed" ELSE "bulk"]
  /\ UNCHANGED << dbVars, index, cl, sm >>

\* await this.openSearchService.bulkIndex(MEMBERS, prepared) returns
StBulk ==
  /\ st.pc = "bulk"
  /\ index' = bulkIndex(st.prepared)
  /\ st' = [st EXCEPT !.bulkIds = Range(st.ids),
                      !.written = @ \cup Range(st.ids),
                      !.pc = "mark"]
  /\ UNCHANGED << dbVars, cl, sm >>

\* StBulkFail where markSynced was issued before the bulk write
StBulkFailMarked ==
  /\ st.pc = "bulk"
  /\ dbSynced' = markSynced(st.ids)
  /\ st' = [st EXCEPT !.cause = "bulk", !.pc = "failed"]
  /\ UNCHANGED << dbExists, dbSegs, dbName, dbJoined, dbBag, schema, index, cl, sm >>

\* await this.openSearchService.bulkIndex(MEMBERS, prepared) throws
StBulkFail ==
  /\ st.pc = "bulk"
  /\ st' = [st EXCEPT !.cause = "bulk", !.pc = "failed"]
  /\ UNCHANGED << dbVars, index, cl, sm >>

\* StMark that marks the claimed ids, not the ids of the fetched rows
StMarkClaimed ==
  /\ st.pc = "mark"
  /\ dbSynced' = markSynced(st.memberIds)
  /\ st' = [st EXCEPT !.count = @ + Len(st.memberIds),
                      !.marked = @ \cup Range(st.memberIds),
                      !.pc = "claim"]
  /\ UNCHANGED << dbExists, dbSegs, dbName, dbJoined, dbBag, schema, index, cl, sm >>

\* count += ids.length; await this.memberRepo.markSynced(ids)
StMark ==
  /\ st.pc = "mark"
  /\ dbSynced' = markSynced(st.ids)
  /\ st' = [st EXCEPT !.count = @ + Len(st.ids),
                      !.marked = @ \cup Range(st.ids),
                      !.pc = "claim"]
  /\ UNCHANGED << dbExists, dbSegs, dbName, dbJoined, dbBag, schema, index, cl, sm >>

\* ------------------------------------------------------------------------
\* cleanupMemberIndex(tenantId) and removeMember(memberId)
\* ------------------------------------------------------------------------
NoClPrev == [outcome |-> "none", tenantId |-> 0]

\* The fields up to processed are the locals of the method.  The others
\* record the history of the run: the number of non-empty pages, the number
\* of searches, the ids removed, the number of removals that threw, the
\* tenant's hits in scan order, documents and orphans at the start, and the
\* run before.
ClIdle ==
  [pc |-> "idle", tenantId |-> 0, results |-> << >>, toRemove |-> << >>,
   lastJoinedAt |-> NoCursor, processed |-> 0,
   pages |-> 0, searches |-> 0, removed |-> {}, errors |-> 0,
   startHits |-> << >>, startDocs |-> {}, startOrphans |-> {},
   prev |-> NoClPrev]

\* the ids of the documents of a tenant
DocsOf(tenantId) ==
  { id \in MemberIds : index[id] # NoDoc /\ index[id].uuid_tenantId = tenantId }

\* the documents of a tenant whose member the store no longer has
OrphansOf(tenantId) ==
  { id \in DocsOf(tenantId) : ~ (id \in dbExists /\ TenantOf(id) = tenantId) }

\* ClStart whose first search is given a cursor
ClStartAtCursor(tenantId) ==
  /\ cl.pc \in {"idle", "done", "failed"}
  /\ cl' = [ClIdle EXCEPT !.pc = "search", !.tenantId = tenantId,
                          !.lastJoinedAt = 1,
                          !.startHits = search(tenantId, MaxMembers, NoCursor),
                          !.startDocs = DocsOf(tenantId),
                          !.startOrphans = OrphansOf(tenantId),
                          !.prev = IF cl.pc = "idle" THEN NoClPrev
                                   ELSE [outcome |-> cl.pc, tenantId |-> cl.tenantId]]
  /\ UNCHANGED << dbVars, index, st, sm >>

\* a caller invokes cleanupMemberIndex(tenantId)
ClStart(tenantId) ==
  /\ cl.pc \in {"idle", "done", "failed"}
  /\ cl' = [ClIdle EXCEPT !.pc = "search", !.tenantId = tenantId,
                          !.startHits = search(tenantId, MaxMembers, NoCursor),
                          !.startDocs = DocsOf(tenantId),
                          !.startOrphans = OrphansOf(tenantId),
                          !.prev = IF cl.pc = "idle" THEN NoClPrev
                                   ELSE [outcome |-> cl.pc, tenantId |-> cl.tenantId]]
  /\ UNCHANGED << dbVars, index, st, sm >>

\* ClSearch whose query has no filter on uuid_tenantId
ClSearchAllTenants ==
  /\ cl.pc = "search"
  /\ LET matching == { id \in MemberIds :
                         /\ index[id] # NoDoc
                         /\ (cl.lastJoinedAt = NoCursor
                               \/ index[id].date_joinedAt > cl.lastJoinedAt) }
         hits == Take(SortHits(matching), pageSize)
         results == [i \in 1..Len(hits) |->
                       [id |-> hits[i], date_joinedAt |-> index[hits[i]].date_joinedAt]]
     IN cl' = [cl EXCEPT !.results = results,
                         !.searches = @ + 1,
                         !.pages = IF Len(results) > 0 THEN @ + 1 ELSE @,
                         !.pc = IF Len(results) > 0 THEN "check" ELSE "done"]
  /\ UNCHANGED << dbVars, index, st, sm >>

\* results = await this.openSearchService.search(MEMBERS, query, pageSize, sort,
\* lastJoinedAt, include) and the test of the loop, results.length > 0
ClSearch ==
  /\ cl.pc = "search"
  /\ LET results == search(cl.tenantId, pageSize, cl.lastJoinedAt)
     IN cl' = [cl EXCEPT !.results = results,
                         !.searches = @ + 1,
                         !.pages = IF Len(results) > 0 THEN @ + 1 ELSE @,
                         !.pc = IF Len(results) > 0 THEN "check" ELSE "done"]
  /\ UNCHANGED << dbVars, index, st, sm >>

\* ClAdvance that takes the cursor from the first hit of the page
ClAdvanceFirstHit(c) ==
  [c EXCEPT !.processed = @ + Len(c.results),
            !.lastJoinedAt = c.results[1].date_joinedAt,
            !.pc = "search"]

\* the end of the loop body: processed += results.length and
\* lastJoinedAt = results[results.length - 1]._source.date_joinedAt
ClAdvance(c) ==
  [c EXCEPT !.processed = @ + Len(c.results),
            !.lastJoinedAt = c.results[Len(c.results)].date_joinedAt,
            !.pc = "search"]

\* ToRemove with the test inverted
ToRemoveExisting(ids, dbIds) == SelectSeq(ids, LAMBDA id : id \in Range(dbIds))

\* ids.filter((id) => !dbIds.includes(id))
ToRemove(ids, dbIds) == SelectSeq(ids, LAMBDA id : id \notin Range(dbIds))

\* ClCheck that checks the ids of every document of the index, not those of
\* the hits of the page
ClCheckAllDocs ==
  /\ cl.pc = "check"
  /\ LET ids == SortHits({ id \in MemberIds : index[id] # NoDoc })
         dbIds == checkMembersExists(cl.tenantId, ids)
         toRemove == ToRemove(ids, dbIds)
     IN cl' = IF Len(toRemove) > 0
              THEN [cl EXCEPT !.toRemove = toRemove, !.pc = "remove"]
              ELSE ClAdvance(cl)
  /\ UNCHANGED << dbVars, index, st, sm >>

\* dbIds = await this.memberRepo.checkMembersExists(tenantId, ids) and toRemove
ClCheck ==
  /\ cl.pc = "check"
  /\ LET ids == [i \in 1..Len(cl.results) |-> cl.results[i].id]
         dbIds == checkMembersExists(cl.tenantId, ids)
         toRemove == ToRemove(ids, dbIds)
     IN cl' = IF Len(toRemove) > 0
              THEN [cl EXCEPT !.toRemove = toRemove, !.pc = "remove"]
              ELSE ClAdvance(cl)
  /\ UNCHANGED << dbVars, index, st, sm >>

\* await this.removeMember(id) returns, for the next id of toRemove
ClRemove ==
  /\ cl.pc = "remove"
  /\ index' = removeFromIndex(Head(cl.toRemove))
  /\ LET after == [cl EXCEPT !.toRemove = Tail(@), !.removed = @ \cup {Head(cl.toRemove)}]
     IN cl' = IF Len(after.toRemove) > 0 THEN after ELSE ClAdvance(after)
  /\ UNCHANGED << dbVars, st, sm >>

\* ClRemoveFail where the error is caught per id and the loop goes on
ClRemoveFailCaught ==
  /\ cl.pc = "remove"
  /\ LET after == [cl EXCEPT !.toRemove = Tail(@), !.errors = @ + 1]
     IN cl' = IF Len(after.toRemove) > 0 THEN after ELSE ClAdvance(after)
  /\ UNCHANGED << dbVars, index, st, sm >>

\* await this.removeMember(id) throws: nothing catches it
ClRemoveFail ==
  /\ cl.pc = "remove"
  /\ cl' = [cl EXCEPT !.errors = @ + 1, !.pc = "failed"]
  /\ UNCHANGED << dbVars, index, st, sm >>

\* ------------------------------------------------------------------------
\* Initial states and specifications
\* ------------------------------------------------------------------------
NoRuns ==
  /\ st = StIdle
  /\ cl = ClIdle
  /\ sm = [c \in Calls |-> SmIdle]

ValidSchemas == {SchemaPlain, SchemaSpecial}
AllSchemas == {SchemaPlain, SchemaSpecial, SchemaCorrupt}

\* tenant 1 has one of the given schemas, tenant 2 the plain one
SchemaIn(schemas) ==
  \E s \in schemas : schema = [t \in Tenants |-> IF t = 1 THEN s ELSE SchemaPlain]

\* Incremental sync: every member is visible or not yet visible in the
\* store; the index holds a document of an older version for every member,
\* or no document at all.
InitMemberWith(schemas) ==
  /\ \E visible \in SUBSET MemberIds :
       /\ dbExists = visible
       /\ dbSegs = [id \in MemberIds |-> IF id \in visible THEN SegsOf(id) ELSE 0]
  /\ dbName = [id \in MemberIds |-> "new"]
  /\ dbJoined = [id \in MemberIds |-> 1]
  /\ dbBag = [id \in MemberIds |-> BagOf(id)]
  /\ dbSynced = {}
  /\ SchemaIn(schemas)
  /\ \E docs \in {{}, MemberIds} :
       index = [id \in MemberIds |-> IF id \in docs THEN StoredDoc(id, "old", 1) ELSE NoDoc]
  /\ NoRuns

InitMember == InitMemberWith(ValidSchemas)

NextMember ==
  \/ \E memberId \in MemberIds : SmStart(1, memberId)
  \/ SmFetch(1)
  \/ SmAttrs(1)
  \/ SmIndex(1)
  \/ SmMark(1)
  \/ SmWait(1)
  \/ SmRemove(1)
  \/ Replicate(1)

\* incremental syncs, one call at a time, under replication lag
SpecMember == InitMember /\ [][NextMember]_vars

\* an awaited call of the store or the index returns, and the delay elapses
FairMember ==
  /\ WF_vars(SmFetch(1))
  /\ WF_vars(SmAttrs(1))
  /\ WF_vars(SmIndex(1))
  /\ WF_vars(SmMark(1))
  /\ WF_vars(SmWait(1))
  /\ WF_vars(SmRemove(1))

\* one call of syncMember
NextMemberOnce ==
  \/ \E memberId \in MemberIds : sm[1].pc = "idle" /\ SmStart(1, memberId)
  \/ SmFetch(1)
  \/ SmAttrs(1)
  \/ SmIndex(1)
  \/ SmMark(1)
  \/ SmWait(1)
  \/ SmRemove(1)
  \/ Replicate(1)

\* one incremental sync under replication lag, whose awaited calls return
SpecMemberFair == InitMember /\ [][NextMemberOnce]_vars /\ FairMember

\* Full resync: every member is absent from the store, or in the store
\* without segment snapshots and pending, or in the store with snapshots and
\* either pending without a document or synced with its document.
InitTenantWith(schemas) ==
  /\ \E members \in SUBSET MemberIds :
       /\ dbExists = members
       /\ \E rowless \in SUBSET members :
            /\ dbSegs = [id \in MemberIds |->
                           IF id \in members \ rowless THEN SegsOf(id) ELSE 0]
            /\ dbSynced \in SUBSET (members \ rowless)
  /\ dbName = [id \in MemberIds |-> "new"]
  /\ dbJoined = [id \in MemberIds |-> 1]
  /\ dbBag = [id \in MemberIds |-> BagOf(id)]
  /\ SchemaIn(schemas)
  /\ index = [id \in MemberIds |->
                IF id \in dbSynced THEN StoredDoc(id, "new", 1) ELSE NoDoc]
  /\ NoRuns

InitTenant == InitTenantWith(ValidSchemas)

StSteps ==
  \/ StReset
  \/ StAttrs
  \/ StClaim
  \/ StFetch
  \/ StBulk
  \/ StMark

NextTenant ==
  \/ \E tenantId \in Tenants, reset \in BOOLEAN, batchSize \in 1..MaxBatchSize :
       StStart(tenantId, reset, batchSize)
  \/ StSteps

\* full resyncs, one run at a time, with no external mutation and no failure
SpecTenant == InitTenant /\ [][NextTenant]_vars

NextTenantFail == NextTenant \/ StBulkFail

\* full resyncs, one run at a time, where a bulk write may fail
SpecTenantFail == InitTenantWith({SchemaPlain}) /\ [][NextTenantFail]_vars

\* Schema errors: every member is in the store with its snapshots or not in
\* the store, none is synced, and the schema of tenant 1 may hold an
\* attribute of a type outside the enumerated set.
InitSchema ==
  /\ dbExists \in SUBSET MemberIds
  /\ dbSegs = [id \in MemberIds |-> IF id \in dbExists THEN SegsOf(id) ELSE 0]
  /\ dbName = [id \in MemberIds |-> "new"]
  /\ dbJoined = [id \in MemberIds |-> 1]
  /\ dbBag = [id \in MemberIds |-> BagOf(id)]
  /\ dbSynced = {}
  /\ SchemaIn(AllSchemas)
  /\ index = EmptyIndex
  /\ NoRuns

\* no call has been made yet
NoCallYet == st.pc = "idle" /\ sm[1].pc = "idle"

NextSchema ==
  \/ \E memberId \in MemberIds : NoCallYet /\ SmStart(1, memberId)
  \/ SmFetch(1)
  \/ SmAttrs(1)
  \/ SmIndex(1)
  \/ SmMark(1)
  \/ SmWait(1)
  \/ SmRemove(1)
  \/ \E tenantId \in Tenants, reset \in BOOLEAN, batchSize \in 1..MaxBatchSize :
       NoCallYet /\ StStart(tenantId, reset, batchSize)
  \/ StSteps

\* one incremental sync or one full resync, under any schema
SpecSchema == InitSchema /\ [][NextSchema]_vars

\* Cleanup: every member has a document or none, with any join timestamp,
\* and a member with a document is still in the store or no longer.
InitCleanup ==
  /\ \E docs \in SUBSET MemberIds :
       /\ dbExists \in SUBSET docs
       /\ dbJoined \in [MemberIds -> 1..MaxJoin]
       /\ \A id \in MemberIds : (id \notin docs \/ id = MaxMembers) => dbJoined[id] = 1
       /\ index = [id \in MemberIds |->
                     IF id \in docs THEN StoredDoc(id, "new", dbJoined[id]) ELSE NoDoc]
  /\ dbSegs = [id \in MemberIds |-> IF id \in dbExists THEN SegsOf(id) ELSE 0]
  /\ dbName = [id \in MemberIds |-> "new"]
  /\ dbBag = [id \in MemberIds |-> BagOf(id)]
  /\ dbSynced = dbExists
  /\ schema = [t \in Tenants |-> SchemaPlain]
  /\ NoRuns

NextCleanup ==
  \/ \E tenantId \in Tenants : ClStart(tenantId)
  \/ ClSearch
  \/ ClCheck
  \/ ClRemove

\* cleanup passes, one at a time, with no concurrent mutation and no failure
SpecCleanup == InitCleanup /\ [][NextCleanup]_vars

NextCleanupFail == NextCleanup \/ ClRemoveFail

\* cleanup passes, one at a time, where a removal may fail
SpecCleanupFail == InitCleanup /\ [][NextCleanupFail]_vars

\* ------------------------------------------------------------------------
\* Properties of syncMember
\* ------------------------------------------------------------------------

\* C1: a syncMember call whose every fetch is empty fetches exactly
\* MaxRetries + 1 = 6 times, writes nothing and marks nothing, issues its
\* one delete only after the 6th empty fetch, and ends with the id absent
\* from the index.
C1_RetryExhaustion ==
  \A c \in Calls :
    LET call == sm[c]
    IN /\ call.fetches <= MaxRetries + 1
       /\ call.deletes <= 1
       /\ (call.pc \in {"fetch", "wait", "remove"}) =>
            /\ call.writes = 0 /\ call.marks = 0 /\ call.deletes = 0
            /\ call.fetches = IF call.pc = "fetch" THEN call.retries ELSE call.retries + 1
       /\ (call.pc = "remove" \/ call.deletes = 1) =>
            /\ call.fetches = MaxRetries + 1
            /\ call.writes = 0 /\ call.marks = 0
       /\ call.deletes = 1 => (call.pc = "done" /\ index[call.memberId] = NoDoc)
       /\ (call.pc = "done" /\ call.members = << >>) =>
            (call.deletes = 1 /\ call.memberId \notin dbSynced)

C1_Witness ==
  \E c \in Calls :
    /\ sm[c].pc = "done"
    /\ sm[c].fetches = 6
    /\ sm[c].deletes = 1
    /\ index[sm[c].memberId] = NoDoc

C2_Safe ==
  \A c \in Calls :
    LET call == sm[c]
        m == call.memberId
        flattened == prefixData(call.members, getTenantMemberAttributes(TenantOf(m)))
    IN Len(call.members) > 0 =>
         /\ call.pc \in {"attrs", "index", "mark", "done"}
         /\ call.deletes = 0
         /\ call.pc \in {"attrs", "index"} => (call.writes = 0 /\ call.marks = 0)
         /\ call.pc = "mark" => (call.writes = 1 /\ call.marks = 0 /\ index[m] = flattened)
         /\ call.pc = "done" =>
              /\ call.writes = 1 /\ call.marks = 1
              /\ m \in dbSynced
              /\ index[m] = flattened
              /\ index[m] = CurrentDoc(m)

\* C2: once a fetch of syncMember returns snapshots, on the first try or on a
\* retry, the call ends synced: one index write of the flattening of the
\* fetched snapshots, then markSynced, no delete, and the document is the
\* flattening of the store's current snapshots.
C2_PresentMemberSynced ==
  /\ [] C2_Safe
  /\ \A c \in Calls : (Len(sm[c].members) > 0) ~> (sm[c].pc = "done" /\ Len(sm[c].members) > 0)

C2_Witness ==
  \E c \in Calls :
    /\ sm[c].pc = "done"
    /\ sm[c].retries > 0
    /\ sm[c].writes = 1
    /\ sm[c].memberId \in dbSynced
    /\ index[sm[c].memberId] = CurrentDoc(sm[c].memberId)

\* ------------------------------------------------------------------------
\* Properties of syncTenantMembers
\* ------------------------------------------------------------------------

\* the number of batches the pending ids at the first claim fill
ExpectedBatches == CeilDiv(Cardinality(st.startPending), st.batchSize)

\* C3: syncTenantMembers ends, and only on an empty claim; the number of
\* non-empty claimed batches is ceil(count / B), count being the number of
\* pending ids at the first claim.
C3_BatchesAreCeil ==
  st.claims > 0 =>
    /\ st.batches <= ExpectedBatches
    /\ st.pc = "done" => (st.memberIds = << >> /\ st.batches = ExpectedBatches)

\* the members of the run's tenant that are written and no longer pending
Acknowledged(id) == id \in dbSynced /\ index[id] = CurrentDoc(id)

C4_Safe ==
  /\ st.marked \subseteq st.written
  /\ st.pc = "mark" =>
       /\ st.bulkIds = Range(st.ids)
       /\ \A i \in 1..Len(st.ids) : index[st.ids[i]] = st.prepared[i].body
  /\ st.pc \in {"fetch", "bulk"} => (st.bulkIds = {} /\ st.marked = st.written)

C4_Step ==
  /\ (dbSynced' \ dbSynced) \subseteq st.bulkIds
  /\ (dbSynced' \ dbSynced) # {} =>
       /\ st.pc = "mark"
       /\ Range(st.ids) = st.bulkIds
       /\ Range(st.ids) \subseteq dbSynced'
  /\ st'.claims # st.claims =>
       /\ Range(st.ids) \subseteq dbSynced
       /\ \A id \in st.written : Acknowledged(id)

\* C4: in syncTenantMembers ids are marked synced only after the bulk write
\* of the documents of exactly those ids has returned in the same batch, and
\* the next claim is issued only after the batch's ids are marked.
C4_WriteThenAcknowledge == [] C4_Safe /\ [][C4_Step]_vars

C4_Witness ==
  /\ st.pc = "mark"
  /\ st.batches = 2
  /\ st.bulkIds # {}
  /\ st.written # st.bulkIds

\* the members of a tenant the store has
MembersOf(tenantId) == { id \in dbExists : TenantOf(id) = tenantId }

\* C7: when a resync with reset has run to its end, every member of the
\* tenant in the store has its document, the flattening of its snapshots;
\* when the run before was a resync with reset of the same tenant that ran to
\* its end, the index is the same as after that run.
C7_ResyncIdempotent ==
  (st.pc = "done" /\ st.reset) =>
    /\ \A id \in MembersOf(st.tenantId) : index[id] # NoDoc /\ index[id] = CurrentDoc(id)
    /\ st.written = MembersOf(st.tenantId)
    /\ (st.prev.outcome = "done" /\ st.prev.reset /\ st.prev.tenantId = st.tenantId) =>
         index = st.prev.index

C7_Witness ==
  /\ st.pc = "done" /\ st.reset
  /\ st.prev.outcome = "done" /\ st.prev.reset /\ st.prev.tenantId = st.tenantId
  /\ Cardinality(MembersOf(st.tenantId)) = 3
  /\ st.batches = 2
  /\ index = st.prev.index

C9_Safe ==
  /\ (st.pc = "failed" /\ st.cause = "bulk") =>
       /\ Range(st.memberIds) # {}
       /\ Range(st.memberIds) \subseteq Pending(st.tenantId)
       /\ Range(st.ids) \cap st.marked = {}
       /\ st.marked \subseteq dbSynced
       /\ st.marked = st.written
  /\ (st.pc = "done" /\ ~ st.reset) =>
       /\ st.written = st.startPending
       /\ st.marked = st.startPending
       /\ Pending(st.tenantId) = {}
       /\ \A id \in st.startPending : Acknowledged(id)

C9_Step ==
  (st.pc = "failed" /\ st' # st) =>
    /\ st'.pc \in {"reset", "attrs"}
    /\ st'.claims = 0
    /\ dbSynced' = dbSynced
    /\ index' = index
    /\ st'.prev.outcome = "failed"

\* C9: a bulk write that fails ends the run: the ids of the failing batch are
\* not marked and stay pending, nothing more is claimed, the ids marked by
\* earlier batches stay marked, and a later run with reset = false that runs
\* to its end has written and marked exactly the ids pending at its start.
C9_BulkFailureAborts == [] C9_Safe /\ [][C9_Step]_vars

C9_Witness ==
  /\ st.pc = "done" /\ ~ st.reset
  /\ st.prev.outcome = "failed" /\ st.prev.cause = "bulk" /\ st.prev.tenantId = st.tenantId
  /\ Cardinality(st.startPending) = 2
  /\ Cardinality(MembersOf(st.tenantId)) = 3
  /\ st.written = st.startPending

\* ------------------------------------------------------------------------
\* Properties of the mapping error
\* ------------------------------------------------------------------------

\* the schema holds an attribute of a type outside the enumerated set
HasUnknownType(attributes) ==
  \E i \in 1..Len(attributes) : attributes[i].type \notin AttributeTypes

\* the schema holds such an attribute and the bag has a value for it
UnknownTypeIn(attributes, bag) ==
  \E i \in 1..Len(attributes) :
    attributes[i].type \notin AttributeTypes /\ attributes[i].name \in DOMAIN bag

\* the ids of a claimed batch for which the store returns snapshots
Fetched(memberIds) == { id \in Range(memberIds) : dbSegs[id] > 0 }

C8_Safe ==
  /\ \A c \in Calls :
       LET call == sm[c]
           attributes == schema[TenantOf(call.memberId)]
       IN Len(call.members) > 0 =>
            /\ (call.pc # "attrs" /\ UnknownTypeIn(attributes, call.members[1].attributes)) =>
                 /\ call.pc = "failed"
                 /\ call.prepared = MappingError
                 /\ call.writes = 0 /\ call.marks = 0
            /\ call.pc = "failed" => UnknownTypeIn(attributes, call.members[1].attributes)
  /\ (st.pc = "failed" /\ st.cause = "mapping") =>
       /\ \E id \in Fetched(st.memberIds) : UnknownTypeIn(st.attributes, dbBag[id])
       /\ st.bulkIds = {}
       /\ st.prepared = << >>
       /\ Range(st.memberIds) \cap dbSynced = {}
       /\ st.marked = st.written
  /\ st.pc \in {"bulk", "mark"} =>
       \A id \in Fetched(st.memberIds) : ~ UnknownTypeIn(st.attributes, dbBag[id])

C8_Step ==
  /\ \A c \in Calls :
       (sm[c].pc = "attrs" /\ sm'[c] # sm[c]
          /\ UnknownTypeIn(schema[TenantOf(sm[c].memberId)], sm[c].members[1].attributes)) =>
            (sm'[c].pc = "failed" /\ index' = index /\ dbSynced' = dbSynced)
  /\ (st.pc = "fetch" /\ st' # st
        /\ \E id \in Fetched(st.memberIds) : UnknownTypeIn(st.attributes, dbBag[id])) =>
          (st'.pc = "failed" /\ index' = index /\ dbSynced' = dbSynced)

StartKept == cl.startDocs \ cl.startOrphans

\* no two documents with the same join timestamp lie on the two sides of a
\* page boundary of the scan
NoTieAcrossPages(hits) ==
  \A i \in 1..(Len(hits) - 1) :
    i % pageSize = 0 => hits[i].date_joinedAt # hits[i + 1].date_joinedAt

\* C5 as stated: a pass that has ended has removed exactly the orphans and
\* left the other documents, whatever the join timestamps.
C5_ExactlyTheOrphans ==
  cl.pc = "done" =>
    /\ cl.removed = cl.startOrphans
    /\ DocsOf(cl.tenantId) = StartKept

\* C5 (amended): a pass removes orphans only and leaves the N-M other
\* documents and the documents of other tenants in the index, for every
\* assignment of join timestamps; when it has ended it has removed exactly
\* the M orphans provided no two documents with equal join timestamp lie on
\* the two sides of a page boundary.
C5_CleanupRemovesOrphans ==
  cl.pc # "idle" =>
    /\ cl.removed \subseteq cl.startOrphans
    /\ DocsOf(cl.tenantId) = cl.startDocs \ cl.removed
    /\ \A id \in StartKept : index[id] = StoredDoc(id, "new", dbJoined[id])
    /\ (cl.pc = "done" /\ NoTieAcrossPages(cl.startHits)) =>
         /\ cl.removed = cl.startOrphans
         /\ DocsOf(cl.tenantId) = StartKept
         /\ OrphansOf(cl.tenantId) = {}

C5_Witness ==
  /\ cl.pc = "done"
  /\ Len(cl.startHits) = 3
  /\ Cardinality(cl.startOrphans) = 2
  /\ cl.startHits[1].date_joinedAt = cl.startHits[2].date_joinedAt
  /\ NoTieAcrossPages(cl.startHits)
  /\ cl.removed = cl.startOrphans
  /\ Cardinality(DocsOf(cl.tenantId)) = 1

\* C6 as stated: the scan ends on an empty page after ceil(count / pageSize)
\* non-empty pages, count being the tenant's documents at the start.
C6_PagesAreCeil ==
  cl.pc = "done" =>
    (cl.results = << >> /\ cl.pages = CeilDiv(Cardinality(cl.startDocs), pageSize))

C6_Safe ==
  cl.pc # "idle" =>
    /\ cl.pages <= CeilDiv(Cardinality(cl.startDocs), pageSize)
    /\ cl.processed <= Cardinality(cl.startDocs)
    /\ cl.searches \in {cl.pages, cl.pages + 1}
    /\ cl.pc = "done" <=> (cl.searches = cl.pages + 1)
    /\ cl.pc = "done" =>
         /\ cl.results = << >>
         /\ cl.pages = CeilDiv(cl.processed, pageSize)
         /\ NoTieAcrossPages(cl.startHits) =>
              /\ cl.processed = Cardinality(cl.startDocs)
              /\ cl.pages = CeilDiv(Cardinality(cl.startDocs), pageSize)

\* what is left of the scan: the documents after the cursor, and the
\* position in the loop body
ScanRank(c) ==
  4 * Cardinality(Matching(c.tenantId, c.lastJoinedAt))
    + (CASE c.pc = "search" -> 2 [] c.pc = "check" -> 1 [] OTHER -> 0)

\* every step of a pass brings the scan nearer to its end
C6_Step ==
  (cl.pc \in {"search", "check", "remove"} /\ cl' # cl) =>
    /\ cl'.pc \in {"search", "check", "remove", "done"}
    /\ ScanRank(cl)' < ScanRank(cl)
    /\ cl'.pc = "done" <=> (cl.pc = "search" /\ cl'.results = << >>)

\* C6 (amended): cleanupMemberIndex ends, exactly when a page returns no
\* hit; the number of non-empty pages is ceil(processed / pageSize), where
\* processed, the number of hits scanned, is at most the tenant's number of
\* documents at the start; it is ceil(count / pageSize) provided no two
\* documents with equal join timestamp lie on the two sides of a page
\* boundary.
C6_CleanupTerminates == [] C6_Safe /\ [][C6_Step]_vars

C6_Witness ==
  /\ cl.pc = "done"
  /\ Len(cl.startHits) = 3
  /\ NoTieAcrossPages(cl.startHits)
  /\ cl.pages = 2
  /\ cl.searches = 3

\* C10 as stated: a removal that fails ends the pass with no further delete
\* or search, the orphans removed before stay removed, and a pass run after
\* it to its end leaves no orphan of the tenant.
C10_RerunRemovesAll ==
  /\ cl.errors > 0 => cl.pc = "failed"
  /\ cl.pc = "failed" => (\A id \in cl.removed : index[id] = NoDoc)
  /\ (cl.pc = "done" /\ cl.prev.outcome = "failed" /\ cl.prev.tenantId = cl.tenantId) =>
       OrphansOf(cl.tenantId) = {}

C10_Safe ==
  /\ cl.errors > 0 => cl.pc = "failed"
  /\ cl.pc = "failed" =>
       /\ cl.errors = 1
       /\ cl.toRemove # << >>
       /\ index[Head(cl.toRemove)] # NoDoc
       /\ \A id \in cl.removed : index[id] = NoDoc
       /\ cl.removed \subseteq cl.startOrphans
       /\ DocsOf(cl.tenantId) = cl.startDocs \ cl.removed
  /\ (cl.pc = "done" /\ cl.prev.outcome = "failed" /\ cl.prev.tenantId = cl.tenantId) =>
       /\ cl.removed \subseteq cl.startOrphans
       /\ NoTieAcrossPages(cl.startHits) =>
            (cl.removed = cl.startOrphans /\ OrphansOf(cl.tenantId) = {})

C10_Step ==
  (cl.pc = "failed" /\ cl' # cl) =>
    /\ cl'.pc = "search"
    /\ cl'.searches = 0 /\ cl'.removed = {}
    /\ cl'.prev.outcome = "failed"
    /\ index' = index

\* C10 (amended): a removal that fails ends the pass at that id, with no
\* further delete and no further search in that pass; the orphans removed
\* before stay removed; a pass run after it to its end removes the remaining
\* orphans provided no two documents with equal join timestamp lie on the
\* two sides of a page boundary of its scan.
C10_RemovalFailureAborts == [] C10_Safe /\ [][C10_Step]_vars

C10_Witness ==
  /\ cl.pc = "done"
  /\ cl.prev.outcome = "failed" /\ cl.prev.tenantId = cl.tenantId
  /\ Len(cl.startHits) = 3
  /\ Cardinality(cl.startOrphans) = 2
  /\ NoTieAcrossPages(cl.startHits)
  /\ cl.removed = cl.startOrphans

\* ------------------------------------------------------------------------
\* Properties of the reset of the pending queue
\* ------------------------------------------------------------------------

\* one run of syncTenantMembers
NextTenantOnce ==
  \/ \E tenantId \in Tenants, reset \in BOOLEAN, batchSize \in 1..MaxBatchSize :
       st.pc = "idle" /\ StStart(tenantId, reset, batchSize)
  \/ StSteps

\* an awaited call of the store or the index returns: the run does not stay
\* at any of its awaits for ever.  StFetch is enabled exactly when the run is
\* at the fetch and always leaves it, so that its weak fairness is
\* []<>(st.pc # "fetch").
FairTenant ==
  /\ WF_vars(StReset)
  /\ WF_vars(StAttrs)
  /\ WF_vars(StClaim)
  /\ []<>(st.pc # "fetch")
  /\ WF_vars(StBulk)
  /\ WF_vars(StMark)

\* one full resync whose awaited calls return
SpecTenantFair == InitTenant /\ [][NextTenantOnce]_vars /\ FairTenant

\* the pending queue at the first claim, and what a run may write
C11_Safe ==
  /\ (st.claims > 0 /\ st.reset) => st.startPending = MembersOf(st.tenantId)
  /\ st.written \subseteq st.startPending
  /\ (st.pc = "done" /\ st.reset) => st.written = MembersOf(st.tenantId)
  /\ (st.pc = "done" /\ ~ st.reset) => st.written = st.startPending

\* the reset is the only step before the first claim that changes the queue
C11_Step ==
  st.claims = 0 =>
    /\ st.pc = "reset" =>
         /\ Pending(st.tenantId)' = MembersOf(st.tenantId)
         /\ \A t \in Tenants \ {st.tenantId} : Pending(t)' = Pending(t)
    /\ st.pc # "reset" => dbSynced' = dbSynced

\* C11: syncTenantMembers with reset = true first replaces the pending queue
\* of the tenant with all its member ids, so that the run bulk-writes every
\* member id the store has for the tenant, whatever was synced before; with
\* reset = false the queue is unchanged before the first claim and only the
\* ids pending at the start are written.
C11_ResetWritesAll ==
  /\ [] C11_Safe
  /\ [][C11_Step]_vars
  /\ (st.pc = "reset") ~> (st.written = MembersOf(st.tenantId))

\* ------------------------------------------------------------------------
\* Properties of the documents of synced members
\* ------------------------------------------------------------------------

\* the document a sync under the schema with the SPECIAL attribute wrote for
\* a member, before the schema and the display name changed
LegacyDoc(id) ==
  prefixData(RowsWith(id, SegsOf(id), "old", 1 + (id % MaxJoin), BagOf(id)), SchemaSpecial)

\* Any sequence of runs: members 2 and 4 are in the store with snapshots,
\* member 1 is in the store with snapshots or absent, member 3 also may be
\* in the store without snapshots; the members with snapshots have the
\* document of an earlier sync and are all pending or all synced; the index
\* may hold the documents of the members the store no longer has.
InitAll ==
  /\ \E members \in { S \in SUBSET MemberIds : {2, MaxMembers} \subseteq S } :
       /\ dbExists = members
       /\ \E rowless \in SUBSET (members \cap {3}) :
            /\ dbSegs = [id \in MemberIds |->
                           IF id \in members \ rowless THEN SegsOf(id) ELSE 0]
            /\ dbSynced \in {{}, members \ rowless}
            /\ \E orphans \in {{}, MemberIds \ members} :
                 index = [id \in MemberIds |->
                            IF id \in (members \ rowless) \cup orphans
                            THEN LegacyDoc(id) ELSE NoDoc]
  /\ dbName = [id \in MemberIds |-> "new"]
  /\ dbJoined = [id \in MemberIds |-> 1 + (id % MaxJoin)]
  /\ dbBag = [id \in MemberIds |-> BagOf(id)]
  /\ SchemaIn(ValidSchemas)
  /\ NoRuns

\* no run is in flight
Quiet ==
  /\ st.pc \in {"idle", "done", "failed"}
  /\ cl.pc \in {"idle", "done", "failed"}
  /\ \A c \in Calls : sm[c].pc \in {"idle", "done", "failed"}

\* one run of each kind, started when no run is in flight
NextAll ==
  \/ \E memberId \in MemberIds : Quiet /\ sm[1].pc = "idle" /\ SmStart(1, memberId)
  \/ SmFetch(1)
  \/ SmAttrs(1)
  \/ SmIndex(1)
  \/ SmMark(1)
  \/ SmWait(1)
  \/ SmRemove(1)
  \/ Replicate(1)
  \/ \E tenantId \in Tenants, reset \in BOOLEAN, batchSize \in 1..MaxBatchSize :
       Quiet /\ st.pc = "idle" /\ StStart(tenantId, reset, batchSize)
  \/ StSteps
  \/ StBulkFail
  \/ \E tenantId \in Tenants : Quiet /\ cl.pc = "idle" /\ ClStart(tenantId)
  \/ ClSearch
  \/ ClCheck
  \/ ClRemove
  \/ ClRemoveFail

\* a full resync, an incremental sync and a cleanup pass, one run after
\* another in any order, where a bulk write or a removal may fail
SpecAll == InitAll /\ [][NextAll]_vars

\* the documents of the index that carry the member id
DocsFor(id) == { j \in MemberIds : index[j] # NoDoc /\ index[j].uuid_memberId = id }

C12_Safe ==
  /\ \A id \in MemberIds : index[id] # NoDoc => index[id].uuid_memberId = id
  /\ \A id \in dbSynced : Cardinality(DocsFor(id)) = 1

C12_Step ==
  \A id \in MemberIds :
    (index'[id] # index[id] /\ index'[id] # NoDoc) =>
      /\ dbSegs[id] > 0
      /\ index'[id] = CurrentDoc(id)

\* C12: in every state of any sequence of full resyncs, incremental syncs
\* and cleanup passes, every member id marked synced has exactly one
\* document in the index; a sync of an id replaces the document of the id by
\* the flattening of its snapshots, so that no field of the document before
\* is left that the flattening does not have.
C12_OneDocumentPerSynced == [] C12_Safe /\ [][C12_Step]_vars

C12_Witness ==
  /\ sm[1].pc = "done" /\ sm[1].memberId = 2 /\ sm[1].retries = 0 /\ sm[1].writes = 1
  /\ 2 \in dbSynced
  /\ "string_a2" \in DOMAIN LegacyDoc(2).obj_attributes
  /\ "string_a2" \notin DOMAIN index[2].obj_attributes
  /\ index[2] = CurrentDoc(2)
  /\ DocsFor(2) = {2}

\* ------------------------------------------------------------------------
\* Properties of the prefix table
\* ------------------------------------------------------------------------

\* the schemas of two attributes, each of any declared type
TypedSchemas ==
  { << [name |-> "a1", type |-> t1], [name |-> "a2", type |-> t2] >> :
      t1 \in AttributeTypes, t2 \in AttributeTypes }

\* Flattening: every member is in the store with its snapshots, the schema
\* of tenant 1 declares two attributes of any types, and the bag of member 1
\* has a "default" sub-key or not.
InitPrefix ==
  /\ dbExists = MemberIds
  /\ dbSegs = [id \in MemberIds |-> SegsOf(id)]
  /\ dbName = [id \in MemberIds |-> "new"]
  /\ dbJoined = [id \in MemberIds |-> 1]
  /\ \E first \in {BagOne, BagNoDefault} :
       dbBag = [id \in MemberIds |-> IF id = 1 THEN first ELSE BagOf(id)]
  /\ dbSynced = {}
  /\ SchemaIn(TypedSchemas)
  /\ index = EmptyIndex
  /\ NoRuns

NextPrefix ==
  \/ \E memberId \in MemberIds : sm[1].pc = "idle" /\ SmStart(1, memberId)
  \/ SmFetch(1)
  \/ SmAttrs(1)
  \/ SmIndex(1)
  \/ SmMark(1)

\* one incremental sync of a member under a schema of declared types
SpecPrefix == InitPrefix /\ [][NextPrefix]_vars

\* the prefix of the table for a declared type other than SPECIAL
TablePrefix(type, defValue) ==
  CASE type = "BOOLEAN" -> "bool_"
    [] type = "NUMBER" ->
         IF defValue # Undefined /\ defValue % 10 = 0 THEN "int_" ELSE "float_"
    [] type \in {"EMAIL", "STRING", "URL"} -> "string_"
    [] type = "DATE" -> "date_"
    [] type = "MULTI_SELECT" -> "string_arr_"

\* the entry of obj_attributes the table asks for an attribute of the bag
FollowsTable(attribute, attData, p_attributes) ==
  LET bag == attData[attribute.name]
      defValue == IF "default" \in DOMAIN bag THEN bag["default"] ELSE Undefined
  IN IF attribute.type = "SPECIAL"
     THEN /\ ("string_" \o attribute.name) \in DOMAIN p_attributes
          /\ ("obj_" \o attribute.name) \notin DOMAIN p_attributes
          /\ p_attributes["string_" \o attribute.name] = JsonStringify(bag)
     ELSE /\ ("obj_" \o attribute.name) \in DOMAIN p_attributes
          /\ ("string_" \o attribute.name) \notin DOMAIN p_attributes
          /\ LET p_data == p_attributes["obj_" \o attribute.name]
                 prefix == TablePrefix(attribute.type, defValue)
             IN /\ DOMAIN p_data = { prefix \o key : key \in DOMAIN bag }
                /\ \A key \in DOMAIN bag : p_data[prefix \o key] = bag[key]

\* C13: the flattening of a member under a schema of declared types names
\* the fields by the table: bool_ for BOOLEAN, int_ for NUMBER with an
\* integer-valued default and float_ otherwise, string_ for EMAIL, STRING
\* and URL, date_ for DATE, string_arr_ for MULTI_SELECT; an attribute that
\* is not SPECIAL is obj_<name> and every sub-key of it carries the prefix;
\* a SPECIAL attribute is the one serialized field string_<name>.
C13_PrefixTable ==
  \A c \in Calls :
    LET call == sm[c]
        attributes == schema[TenantOf(call.memberId)]
    IN call.pc \in {"index", "mark", "done"} =>
         /\ call.prepared # MappingError
         /\ \A i \in 1..Len(attributes) :
              attributes[i].name \in DOMAIN dbBag[call.memberId] =>
                FollowsTable(attributes[i], dbBag[call.memberId], call.prepared.obj_attributes)
         /\ call.pc # "index" => index[call.memberId] = call.prepared

C13_Witness ==
  /\ sm[1].pc = "done" /\ sm[1].memberId = 2
  /\ schema[1] = SchemaSpecial
  /\ index[2].obj_attributes = [obj_a1 |-> [float_default |-> 55],
                                string_a2 |-> JsonStringify([default |-> 10])]

\* ------------------------------------------------------------------------
\* Properties of runs of different tenants in flight together
\* ------------------------------------------------------------------------

\* the tenants that have a run in flight
TenantsInFlight ==
  { t \in Tenants :
      \/ st.pc \notin {"idle", "done", "failed"} /\ st.tenantId = t
      \/ cl.pc \notin {"idle", "done", "failed"} /\ cl.tenantId = t
      \/ \E c \in Calls : /\ sm[c].pc \notin {"idle", "done", "failed"}
                          /\ TenantOf(sm[c].memberId) = t }

\* one run of each kind; a run starts for a tenant that has no run in flight
NextTenants ==
  \/ \E memberId \in MemberIds :
       /\ sm[1].pc = "idle"
       /\ TenantOf(memberId) \notin TenantsInFlight
       /\ SmStart(1, memberId)
  \/ SmFetch(1)
  \/ SmAttrs(1)
  \/ SmIndex(1)
  \/ SmMark(1)
  \/ SmWait(1)
  \/ SmRemove(1)
  \/ \E tenantId \in Tenants, reset \in BOOLEAN, batchSize \in 1..MaxBatchSize :
       /\ st.pc = "idle"
       /\ tenantId \notin TenantsInFlight
       /\ StStart(tenantId, reset, batchSize)
  \/ StSteps
  \/ \E tenantId \in Tenants :
       /\ cl.pc = "idle"
       /\ tenantId \notin TenantsInFlight
       /\ ClStart(tenantId)
  \/ ClSearch
  \/ ClCheck
  \/ ClRemove

\* a full resync, a cleanup pass and an incremental sync whose steps
\* interleave in any order while they are for different tenants
SpecTenants == InitAll /\ [][NextTenants]_vars

\* the runs in flight
RunsInFlight ==
  { r \in {"st", "cl", "sm"} :
      CASE r = "st" -> st.pc \notin {"idle", "done", "failed"}
        [] r = "cl" -> cl.pc \notin {"idle", "done", "failed"}
        [] r = "sm" -> sm[1].pc \notin {"idle", "done", "failed"} }

\* a step of a run changes the document and the synced mark of no member of
\* another tenant
C14_Step ==
  /\ \A id \in MemberIds :
       (index'[id] # index[id] \/ (id \in dbSynced') # (id \in dbSynced)) =>
         /\ st' # st => TenantOf(id) = st.tenantId
         /\ cl' # cl => TenantOf(id) = cl.tenantId
         /\ \A c \in Calls : sm'[c] # sm[c] => TenantOf(id) = TenantOf(sm[c].memberId)
  /\ \A c \in Calls :
       (sm[c].pc = "mark" /\ sm'[c].pc = "done") => sm[c].memberId \in dbSynced'

\* what each run finds and leaves is what it finds and leaves when it runs
\* alone
C14_Safe ==
  /\ \A id \in MemberIds : index[id] # NoDoc => index[id].uuid_tenantId = TenantOf(id)
  /\ Cardinality(TenantsInFlight) = Cardinality(RunsInFlight)
  /\ C4_Safe
  /\ st.pc = "done" =>
       /\ st.written = st.startPending
       /\ st.marked = st.written
       /\ st.reset => st.written = MembersOf(st.tenantId)
       /\ \A id \in st.written : Acknowledged(id)
  /\ cl.pc \in {"search", "check", "remove"} =>
       /\ cl.removed \subseteq cl.startOrphans
       /\ DocsOf(cl.tenantId) = cl.startDocs \ cl.removed
  /\ (cl.pc = "done" /\ NoTieAcrossPages(cl.startHits)) => cl.removed = cl.startOrphans
  /\ \A c \in Calls :
       sm[c].pc = "done" =>
         IF sm[c].writes = 1
         THEN index[sm[c].memberId] = CurrentDoc(sm[c].memberId)
         ELSE sm[c].deletes = 1 /\ index[sm[c].memberId] = NoDoc

\* C14: runs for different tenants whose steps interleave in any order leave
\* the index and the pending queues as the runs leave them one after
\* another: no step of a run writes, deletes or marks synced an id of
\* another tenant, and every run ends with the result it has alone.
C14_TenantsIndependent == [] C14_Safe /\ [][C14_Step]_vars

C14_Witness ==
  /\ cl.pc = "remove" /\ cl.tenantId = 1 /\ cl.removed # {}
  /\ st.pc = "mark" /\ st.tenantId = 2 /\ st.reset
  /\ index[MaxMembers] = CurrentDoc(MaxMembers)
  /\ index[MaxMembers] # LegacyDoc(MaxMembers)

\* ------------------------------------------------------------------------
\* Properties of concurrent calls of syncMember for one member
\* ------------------------------------------------------------------------

\* the members the concurrent calls are for
SharedIds == {1, 2}

\* a call of syncMember is in flight
InFlight(c) == sm[c].pc \notin {"idle", "done", "failed"}

\* a caller invokes syncMember(memberId) whatever other calls are in flight:
\* nothing in the service holds a call back.  The field beside records, for
\* this call and for the calls in flight for the same member, that they were
\* in flight together.
SmStartBeside(c, memberId) ==
  /\ sm[c].pc = "idle"
  /\ LET others == { o \in Calls \ {c} : InFlight(o) /\ sm[o].memberId = memberId }
     IN sm' = [o \in Calls |->
                 IF o = c
                 THEN [pc |-> "fetch", memberId |-> memberId, retries |-> 0,
                       members |-> << >>, prepared |-> NoDoc, fetches |-> 0,
                       writes |-> 0, marks |-> 0, deletes |-> 0,
                       beside |-> others # {}]
                 ELSE IF o \in others THEN [sm[o] EXCEPT !.beside = TRUE]
                 ELSE sm[o]]
  /\ UNCHANGED << dbVars, index, st, cl >>

\* the member changes in the store: its display name is edited
Rename(id) ==
  /\ id \in dbExists
  /\ dbName[id] = "new"
  /\ dbName' = [dbName EXCEPT ![id] = "newer"]
  /\ UNCHANGED << dbExists, dbSegs, dbJoined, dbBag, dbSynced, schema, index, st, cl, sm >>

\* Concurrent calls: the shared members are visible in the store or not yet,
\* none is synced, and the index holds a document of an older version for
\* every member, or no document at all.
InitSameId ==
  /\ \E visible \in SUBSET SharedIds :
       /\ dbExists = (MemberIds \ SharedIds) \cup visible
       /\ dbSegs = [id \in MemberIds |-> IF id \in dbExists THEN SegsOf(id) ELSE 0]
  /\ dbName = [id \in MemberIds |-> "new"]
  /\ dbJoined = [id \in MemberIds |-> 1]
  /\ dbBag = [id \in MemberIds |-> BagOf(id)]
  /\ dbSynced = {}
  /\ SchemaIn({SchemaPlain})
  /\ \E docs \in {{}, MemberIds} :
       index = [id \in MemberIds |-> IF id \in docs THEN StoredDoc(id, "old", 1) ELSE NoDoc]
  /\ NoRuns

NextSameId ==
  \/ \E c \in {1, 2}, memberId \in SharedIds : SmStartBeside(c, memberId)
  \/ \E c \in {1, 2} : SmFetch(c)
  \/ \E c \in {1, 2} : SmAttrs(c)
  \/ \E c \in {1, 2} : SmIndex(c)
  \/ \E c \in {1, 2} : SmMark(c)
  \/ \E c \in {1, 2} : SmWait(c)
  \/ \E c \in {1, 2} : SmRemove(c)
  \/ \E c \in {1, 2} : Replicate(c)
  \/ \E id \in SharedIds : Rename(id)

\* two calls of syncMember, in flight together or one after the other, while
\* the store changes
SpecSameId == InitSameId /\ [][NextSameId]_vars

\* the index agrees with the store on a member
Agrees(id) ==
  IF dbSegs[id] > 0 THEN index[id] = CurrentDoc(id) ELSE index[id] = NoDoc

\* a call that was never in flight together with another call for its
\* member, while none is in flight for it, and since whose fetch the store
\* has not changed
Serialized(c) ==
  /\ sm[c].pc = "done"
  /\ ~ sm[c].beside
  /\ \A o \in Calls \ {c} : ~ (InFlight(o) /\ sm[o].memberId = sm[c].memberId)
  /\ sm[c].members = getMemberData(<< sm[c].memberId >>)

\* C15: syncMember provides no mutual exclusion per member id, so that the
\* index can end with an older document, or with none, of a member the store
\* holds and that is marked synced, when two calls for the id are in flight
\* together while the store changes; when the calls for an id follow one
\* another, the index agrees with the store after the call that fetched the
\* store's current state: the member's current flattening and the id marked
\* synced, or no document when the store returns no snapshot.
C15_SerializedAgrees ==
  \A c \in Calls :
    Serialized(c) =>
      /\ Agrees(sm[c].memberId)
      /\ sm[c].members # << >> => sm[c].memberId \in dbSynced

\* two calls for one member were in flight together and have ended; the
\* later fetch was written first and the earlier fetch over it
C15_Witness ==
  \E id \in SharedIds :
    /\ sm[1].pc = "done" /\ sm[2].pc = "done"
    /\ sm[1].memberId = id /\ sm[2].memberId = id
    /\ sm[1].beside /\ sm[2].beside
    /\ id \in dbSynced
    /\ dbName[id] = "newer"
    /\ sm[2].prepared = CurrentDoc(id)
    /\ index[id] = sm[1].prepared
    /\ index[id].string_displayName = "new"

\* two calls for one member were in flight together and have ended; the
\* delete of the call that ran out of retries came after the write and the
\* mark of the other
LateDelete ==
  \E id \in SharedIds :
    /\ sm[1].pc = "done" /\ sm[2].pc = "done"
    /\ sm[1].memberId = id /\ sm[2].memberId = id
    /\ sm[1].deletes = 1 /\ sm[2].writes = 1
    /\ id \in dbSynced /\ dbSegs[id] > 0
    /\ index[id] = NoDoc

\* ------------------------------------------------------------------------
\* Properties of the cursor of the cleanup scan
\* ------------------------------------------------------------------------

\* the join timestamp of the last hit of a page
LastJoinedAt(results) == results[Len(results)].date_joinedAt

C16_Safe ==
  cl.pc = "search" =>
    IF cl.searches = 0
    THEN cl.lastJoinedAt = NoCursor
    ELSE /\ cl.results # << >>
         /\ cl.lastJoinedAt = LastJoinedAt(cl.results)

C16_Step ==
  /\ cl'.searches = cl.searches + 1 =>
       /\ cl.pc = "search"
       /\ cl'.results = search(cl.tenantId, pageSize, cl.lastJoinedAt)
       /\ cl'.lastJoinedAt = cl.lastJoinedAt
  /\ (cl.pc \in {"search", "check", "remove"} /\ cl'.pc \in {"search", "check", "remove", "done"}) =>
       /\ cl'.lastJoinedAt >= cl.lastJoinedAt
       /\ cl'.lastJoinedAt # cl.lastJoinedAt =>
            /\ cl'.pc = "search"
            /\ cl'.lastJoinedAt = LastJoinedAt(cl.results)

\* C16: in a cleanup pass the first page is searched with no cursor; the
\* cursor of every later search is the join timestamp of the last hit of the
\* page before, and it never decreases from one page to the next.
C16_CursorMonotone == [] C16_Safe /\ [][C16_Step]_vars

C16_Witness ==
  /\ cl.pc = "search"
  /\ cl.pages = 2 /\ cl.searches = 2
  /\ Len(cl.startHits) = 3
  /\ cl.lastJoinedAt = cl.startHits[3].date_joinedAt
  /\ cl.lastJoinedAt > cl.startHits[2].date_joinedAt
  /\ cl.startHits[1].date_joinedAt < cl.startHits[2].date_joinedAt

\* ------------------------------------------------------------------------
\* Properties of the structure of the flattened document
\* ------------------------------------------------------------------------

\* the segment snapshots the store can return for a member: the rows of a
\* member may differ in every field but the ids
SnapshotsOf(id) ==
  [id : {id}, tenantId : {TenantOf(id)}, displayName : {"new", "old"},
   joinedAt : {1}, attributes : {BagOne, BagTwo, BagNone},
   segmentId : 1..MaxSegments, activityCount : {0, 9}]

\* the non-empty sequences of snapshots of a member
SnapshotSeqs(id) == UNION { [1..n -> SnapshotsOf(id)] : n \in 1..MaxSegments }

\* Flattening of any snapshots: the fetch of a call of syncMember for member
\* 1 has returned any non-empty sequence of snapshots.
InitFlatten ==
  /\ dbExists = MemberIds
  /\ dbSegs = [id \in MemberIds |-> SegsOf(id)]
  /\ dbName = [id \in MemberIds |-> "new"]
  /\ dbJoined = [id \in MemberIds |-> 1]
  /\ dbBag = [id \in MemberIds |-> BagOf(id)]
  /\ dbSynced = {}
  /\ SchemaIn(ValidSchemas)
  /\ index = EmptyIndex
  /\ st = StIdle
  /\ cl = ClIdle
  /\ \E members \in SnapshotSeqs(1) :
       sm = [c \in Calls |->
               IF c = 1
               THEN [SmIdle EXCEPT !.pc = "attrs", !.memberId = 1,
                                   !.members = members, !.fetches = 1]
               ELSE SmIdle]

NextFlatten ==
  \/ SmAttrs(1)
  \/ SmIndex(1)
  \/ SmMark(1)

\* the rest of a call of syncMember whose fetch returned snapshots
SpecFlatten == InitFlatten /\ [][NextFlatten]_vars

\* the names of the attributes the schema declares
Declared(attributes) == { attributes[i].name : i \in 1..Len(attributes) }

\* identity and scalar fields are those of the first snapshot, and there is
\* one segment entry per snapshot, in order, with its segment id and its
\* aggregates
FirstSnapshotAndSegments(members, p) ==
  /\ p.uuid_memberId = members[1].id
  /\ p.uuid_tenantId = members[1].tenantId
  /\ p.string_displayName = members[1].displayName
  /\ p.date_joinedAt = members[1].joinedAt
  /\ Len(p.obj_arr_segments) = Len(members)
  /\ \A k \in 1..Len(members) :
       /\ p.obj_arr_segments[k].uuid_segmentId = members[k].segmentId
       /\ p.obj_arr_segments[k].int_activityCount = members[k].activityCount

\* the entries of obj_attributes are one per attribute of the given names
EntriesFor(names, p) ==
  /\ Cardinality(DOMAIN p.obj_attributes) = Cardinality(names)
  /\ \A name \in names :
       ("obj_" \o name) \in DOMAIN p.obj_attributes
         \/ ("string_" \o name) \in DOMAIN p.obj_attributes

\* C17 as stated: obj_attributes has one entry for each attribute of the bag
\* of the first snapshot.
C17_EntryPerBagAttribute ==
  \A c \in Calls :
    sm[c].pc \in {"index", "mark", "done"} =>
      /\ EntriesFor(DOMAIN sm[c].members[1].attributes, sm[c].prepared)
      /\ FirstSnapshotAndSegments(sm[c].members, sm[c].prepared)

\* C17 (amended): obj_attributes of the flattened document has one entry for
\* each attribute that the schema declares and the bag of the first snapshot
\* holds, and none for an attribute the bag lacks or the schema does not
\* declare; identity and scalar fields are those of the first snapshot;
\* obj_arr_segments has one entry per snapshot, in the order of the
\* snapshots, each with the segment id and the aggregates of its snapshot.
C17_DocumentStructure ==
  \A c \in Calls :
    sm[c].pc \in {"index", "mark", "done"} =>
      LET attributes == schema[TenantOf(sm[c].memberId)]
          first == sm[c].members[1]
      IN /\ EntriesFor(Declared(attributes) \cap DOMAIN first.attributes, sm[c].prepared)
         /\ FirstSnapshotAndSegments(sm[c].members, sm[c].prepared)
         /\ sm[c].pc # "index" => index[sm[c].memberId] = sm[c].prepared

C17_Witness ==
  /\ sm[1].pc = "done"
  /\ Len(sm[1].members) = 2
  /\ sm[1].members[1].displayName = "old" /\ sm[1].members[2].displayName = "new"
  /\ sm[1].members[1].attributes = BagTwo /\ sm[1].members[2].attributes = BagOne
  /\ sm[1].members[1].segmentId = 2 /\ sm[1].members[2].segmentId = 1
  /\ schema[1] = SchemaPlain
  /\ index[1].string_displayName = "old"
  /\ DOMAIN index[1].obj_attributes = {"obj_a1"}
  /\ index[1].obj_arr_segments[1].uuid_segmentId = 2

\* ------------------------------------------------------------------------
\* Properties of the deletions of the cleanup scan
\* ------------------------------------------------------------------------

\* const ids = results.map((r) => r._id)
HitIds(results) == [i \in 1..Len(results) |-> results[i].id]

C18_Safe ==
  /\ cl.pc = "remove" =>
       /\ cl.toRemove # << >>
       /\ \A id \in Range(cl.toRemove) :
            /\ id \in Range(HitIds(cl.results))
            /\ id \notin Range(checkMembersExists(cl.tenantId, HitIds(cl.results)))
  /\ cl.pc \in {"check", "remove"} =>
       \A id \in Range(HitIds(cl.results)) :
         /\ id \in Range(HitIds(cl.startHits))
         /\ id \in cl.startDocs
  /\ cl.pc # "idle" =>
       /\ cl.removed \subseteq Range(HitIds(cl.startHits))
       /\ \A id \in cl.removed : id \notin Range(checkMembersExists(cl.tenantId, << id >>))
       /\ \A id \in cl.startDocs :
            id \in Range(checkMembersExists(cl.tenantId, << id >>)) => index[id] # NoDoc

C18_Step ==
  /\ (cl.pc = "check" /\ cl'.pc = "remove") =>
       /\ cl'.results = cl.results
       /\ cl'.toRemove = ToRemove(HitIds(cl.results),
                                  checkMembersExists(cl.tenantId, HitIds(cl.results)))
  /\ (cl.pc = "remove" /\ cl'.pc = "remove") =>
       /\ cl'.results = cl.results
       /\ cl'.toRemove = Tail(cl.toRemove)
  /\ index' # index =>
       /\ cl.pc = "remove"
       /\ \A id \in MemberIds :
            index'[id] # index[id] => (id = Head(cl.toRemove) /\ index'[id] = NoDoc)

\* C18: a cleanup pass deletes only ids that are hits of the page it has just
\* searched with the tenant's filter and that the existence check of that
\* page did not return; a document whose id the check returned, and a
\* document that is no hit of the tenant's search, is never deleted; this
\* holds for every assignment of join timestamps, ties across a page
\* boundary included.
C18_DeletesOnlyCheckedHits == [] C18_Safe /\ [][C18_Step]_vars

\* a pass has ended that removed the orphan of its first page; a tie on the
\* page boundary kept an existing member's document out of every page, and
\* the documents of the other tenant were no hits: all of them are kept
C18_Witness ==
  /\ cl.pc = "done" /\ cl.tenantId = 1
  /\ Len(cl.startHits) = 3
  /\ cl.startHits[2].date_joinedAt = cl.startHits[3].date_joinedAt
  /\ cl.processed = 2
  /\ cl.removed = {cl.startHits[1].id}
  /\ cl.startHits[2].id \in dbExists
  /\ cl.startHits[3].id \in dbExists
  /\ index[cl.startHits[2].id] # NoDoc
  /\ index[cl.startHits[3].id] # NoDoc
  /\ MaxMembers \notin dbExists
  /\ index[MaxMembers] # NoDoc

\* ------------------------------------------------------------------------
\* Properties of the acknowledgement of a batch
\* ------------------------------------------------------------------------

\* the claimed ids of the current batch for which the fetch returned no row
Rowless(memberIds) == Range(memberIds) \ Fetched(memberIds)

C19_Safe ==
  /\ st.pc \in {"bulk", "mark"} =>
       /\ Range(st.ids) = Fetched(st.memberIds)
       /\ Range(st.ids) # {}
  /\ st.pc = "mark" => st.bulkIds = Fetched(st.memberIds)
  /\ (st.pc = "claim" /\ st.claims > 0) =>
       \A id \in Rowless(st.memberIds) :
         /\ id \notin st.written /\ id \notin st.marked
         /\ id \notin dbSynced
         /\ id \in Pending(st.tenantId)
         /\ id \in Range(getTenantMembersForSync(st.tenantId, 1, st.batchSize))

C19_Step ==
  /\ (st.pc = "bulk" /\ st'.pc = "mark") =>
       \A id \in MemberIds :
         IF id \in Fetched(st.memberIds)
         THEN index'[id] = CurrentDoc(id)
         ELSE index'[id] = index[id]
  /\ (st.pc = "mark" /\ st'.pc = "claim") =>
       /\ dbSynced' = dbSynced \cup Fetched(st.memberIds)
       /\ st'.count = st.count + Cardinality(Fetched(st.memberIds))
       /\ st'.memberIds = st.memberIds
  /\ (dbSynced' \ dbSynced) # {} => (st.pc = "mark" /\ st'.pc = "claim")
  /\ (st.pc = "fetch" /\ st'.pc = "claim") =>
       /\ Fetched(st.memberIds) = {}
       /\ st'.memberIds = st.memberIds
       /\ UNCHANGED << dbVars, index >>
  /\ (st.pc = "claim" /\ st.claims > 0 /\ st'.pc \in {"fetch", "done"}) =>
       /\ Rowless(st.memberIds) \subseteq Range(st'.memberIds)
       /\ st'.memberIds = getTenantMembersForSync(st.tenantId, 1, st.batchSize)

\* C19: in syncTenantMembers the ids marked synced in a batch are the ids for
\* which the fetch of the snapshots returned at least one row, which are the
\* ids of the bulk write, and not the claimed ids; a claimed id without rows
\* is neither written nor marked, stays pending, and is returned by the next
\* claim, every claim reading page 1.
C19_MarksFetchedIds == [] C19_Safe /\ [][C19_Step]_vars

\* the first batch of two claimed a member with rows and one without; the
\* first was written and marked, and the second claim has returned the other
\* again
C19_Witness ==
  /\ st.pc = "fetch" /\ st.claims = 2 /\ st.batchSize = 2
  /\ Cardinality(st.startPending) >= 2
  /\ Cardinality(st.marked) = 1 /\ st.count = 1
  /\ st.marked = st.written /\ st.marked \subseteq dbSynced
  /\ \E id \in Range(st.memberIds) :
       /\ id \in st.startPending
       /\ \A w \in st.marked : id < w
       /\ dbSegs[id] = 0
       /\ id \notin dbSynced

====
